---- MODULE Spec2Model ----
(***************************************************************************)
(* A model of pagerank.py: transition_model, sample_pagerank and           *)
(* iterate_pagerank over a link graph (corpus).                            *)
(*                                                                         *)
(* Python's real-valued arithmetic is modelled by exact rationals          *)
(* <<numerator, denominator>> in lowest terms with a positive denominator. *)
(* Pages are the integers 1..k: a corpus is a function from 1..k to sets   *)
(* of pages, iterated in key order like the dict the code iterates.        *)
(***************************************************************************)
EXTENDS Integers, Sequences, FiniteSets, TLC

VARIABLES corpus, damping_factor, n, page, pc, returned,
          sample, current_page, i, old_dict, new_dict

vars == <<corpus, damping_factor, n, page, pc, returned,
          sample, current_page, i, old_dict, new_dict>>

\* Largest number of pages of a corpus handed to transition_model and to
\* iterate_pagerank.
MaxPages == 3
\* Largest number of pages of a corpus handed to sample_pagerank.
MaxSamplePages == 2
\* Largest sample count n handed to sample_pagerank.
MaxN == 3

\* line 89: current_page = None, which is no page (pages are 1..k) and is
\* false in the test of line 91.
None == 0

----------------------------------------------------------------------------
\* Exact rational arithmetic standing for Python's float arithmetic.

Abs(x) == IF x < 0 THEN -x ELSE x

RECURSIVE GCD(_, _)
GCD(a, b) == IF b = 0 THEN a ELSE GCD(b, a % b)

Rat(num, den) ==
    LET g == GCD(Abs(num), den)
    IN  <<num \div g, den \div g>>

Zero == <<0, 1>>
One == <<1, 1>>

RAdd(a, b) ==
    LET g == GCD(a[2], b[2])
    IN  Rat(a[1] * (b[2] \div g) + b[1] * (a[2] \div g), (a[2] \div g) * b[2])

RNeg(a) == <<-a[1], a[2]>>

RSub(a, b) == RAdd(a, RNeg(b))

RMul(a, b) ==
    LET g1 == GCD(Abs(a[1]), b[2])
        g2 == GCD(Abs(b[1]), a[2])
    IN  <<(a[1] \div g1) * (b[1] \div g2), (a[2] \div g2) * (b[2] \div g1)>>

\* a / k for an integer k > 0.
RDivInt(a, k) == RMul(a, <<1, k>>)

RAbs(a) == <<Abs(a[1]), a[2]>>

\* a < b, by comparing integer parts and then the fractional parts'
\* reciprocals, so that no cross product is formed.
RECURSIVE RLt(_, _)
RLt(a, b) ==
    LET qa == a[1] \div a[2]
        qb == b[1] \div b[2]
        ra == a[1] % a[2]
        rb == b[1] % b[2]
    IN  IF qa # qb THEN qa < qb
        ELSE IF rb = 0 THEN FALSE
        ELSE IF ra = 0 THEN TRUE
        ELSE RLt(<<b[2], rb>>, <<a[2], ra>>)

RLe(a, b) == ~RLt(b, a)

RMax(a, b) == IF RLt(a, b) THEN b ELSE a

\* Sum of the values of a mapping over the keys 1..k.
RECURSIVE RSumTo(_, _)
RSumTo(f, k) == IF k = 0 THEN Zero ELSE RAdd(RSumTo(f, k - 1), f[k])

RSum(f) == RSumTo(f, Cardinality(DOMAIN f))

----------------------------------------------------------------------------
\* Inputs.

\* DAMPING = 0.85
DAMPING == <<17, 20>>

\* Damping factors in (0,1).
Dampings == {<<1, 250>>, <<1, 2>>, DAMPING}

\* Damping factors in (0,1) under which every rank iterate_pagerank computes
\* stays within the integers TLC can represent (with DAMPING it does not).
IterDampings == {<<1, 250>>, <<1, 2>>}

\* A damping factor outside (0,1).
BadDampings == {Zero}

ValidDamping(d) == RLt(Zero, d) /\ RLt(d, One)

\* The closed graphs over the pages 1..k.
Graphs(k) == [1..k -> SUBSET (1..k)]

len(c) == Cardinality(DOMAIN c)

\* dict assignment d[k] = v
DictSet(d, k, v) == [x \in (DOMAIN d) \cup {k} |-> IF x = k THEN v ELSE d[x]]

----------------------------------------------------------------------------
\* transition_model

\* lines 63-66: a page without links fills the mapping with 1/len(corpus).
UniformBlock(c, p, transition) ==
    IF Cardinality(c[p]) < 1
    THEN [key \in DOMAIN c |-> Rat(1, len(c))]
    ELSE transition

\* line 69
random_factor(c, d) == RDivInt(RSub(One, d), len(c))

\* A faulty variant of even_factor: the damping factor shared among all pages
\* of the corpus instead of the links of the page.
even_factor_wrong(c, p, d) == RDivInt(d, len(c))

\* line 71: damping_factor / len(corpus[page])
even_factor(c, p, d) == RDivInt(d, Cardinality(c[p]))

\* lines 68-74: the loop over all pages, which assigns every key.
RECURSIVE TransitionLoop(_, _, _, _, _)
TransitionLoop(c, p, d, transition, k) ==
    IF k > len(c) THEN transition
    ELSE TransitionLoop(c, p, d,
            DictSet(transition, k,
                IF k \in c[p]
                THEN RAdd(even_factor(c, p, d), random_factor(c, d))
                ELSE random_factor(c, d)),
            k + 1)

transition_model(c, p, d) ==
    TransitionLoop(c, p, d, UniformBlock(c, p, <<>>), 1)

----------------------------------------------------------------------------
\* Calling transition_model on an input drawn from the bounded sets.

InitTM ==
    /\ corpus \in UNION {Graphs(k) : k \in 1..MaxPages}
    /\ damping_factor \in Dampings
    /\ page \in DOMAIN corpus
    /\ pc = "call"
    /\ returned = <<>>
    /\ n = 0
    /\ sample = <<>>
    /\ current_page = None
    /\ i = 0
    /\ old_dict = <<>>
    /\ new_dict = <<>>

CallTransitionModel ==
    /\ pc = "call"
    /\ returned' = transition_model(corpus, page, damping_factor)
    /\ pc' = "done"
    /\ UNCHANGED <<corpus, damping_factor, n, page, sample, current_page, i,
                   old_dict, new_dict>>

NextTM == CallTransitionModel

SpecTM == InitTM /\ [][NextTM]_vars

----------------------------------------------------------------------------
\* sample_pagerank

\* line 96: random.choices draws a key of the model whose weight is positive.
Choices(model) == {p \in DOMAIN model : RLt(Zero, model[p])}

\* A faulty variant of RecordVisit: = in place of +=.
RecordVisitOverwrite(s, p, k) == DictSet(s, p, Rat(1, k))

\* line 102: sample[current_page] += (1/n)
RecordVisit(s, p, k) == DictSet(s, p, RAdd(s[p], Rat(1, k)))

InitSample ==
    /\ corpus \in UNION {Graphs(k) : k \in 0..MaxSamplePages}
    /\ damping_factor \in Dampings \cup BadDampings
    /\ n \in 0..MaxN
    /\ page = None
    /\ pc = "call"
    /\ returned = <<>>
    /\ sample = <<>>
    /\ current_page = None
    /\ i = 0
    /\ old_dict = <<>>
    /\ new_dict = <<>>

\* lines 88-89
EnterSample ==
    /\ pc = "call"
    /\ sample' = [p \in DOMAIN corpus |-> Zero]
    /\ current_page' = None
    /\ i' = 0
    /\ pc' = "sample_loop"
    /\ UNCHANGED <<corpus, damping_factor, n, page, returned, old_dict, new_dict>>

\* lines 90, 98-102: the first step draws a page uniformly and records it.
SampleFirst ==
    /\ pc = "sample_loop"
    /\ i < n
    /\ current_page = None
    /\ \E next \in DOMAIN corpus :
          /\ current_page' = next
          /\ sample' = RecordVisit(sample, next, n)
    /\ i' = i + 1
    /\ UNCHANGED <<corpus, damping_factor, n, page, pc, returned, old_dict, new_dict>>

\* line 99 on an empty corpus: random.choice([]) raises IndexError.
SampleFirstEmpty ==
    /\ pc = "sample_loop"
    /\ i < n
    /\ current_page = None
    /\ DOMAIN corpus = {}
    /\ pc' = "error"
    /\ UNCHANGED <<corpus, damping_factor, n, page, returned, sample,
                   current_page, i, old_dict, new_dict>>

\* lines 90-96, 102: a later step draws the next page from the transition
\* model of the current one and records it.
SampleNext ==
    /\ pc = "sample_loop"
    /\ i < n
    /\ current_page # None
    /\ LET model_transition == transition_model(corpus, current_page, damping_factor)
       IN  \E next \in Choices(model_transition) :
              /\ current_page' = next
              /\ sample' = RecordVisit(sample, next, n)
    /\ i' = i + 1
    /\ UNCHANGED <<corpus, damping_factor, n, page, pc, returned, old_dict, new_dict>>

\* line 104, after range(n) is exhausted
SampleReturn ==
    /\ pc = "sample_loop"
    /\ i >= n
    /\ returned' = sample
    /\ pc' = "done"
    /\ UNCHANGED <<corpus, damping_factor, n, page, sample, current_page, i,
                   old_dict, new_dict>>

NextSample ==
    \/ EnterSample
    \/ SampleFirst
    \/ SampleFirstEmpty
    \/ SampleNext
    \/ SampleReturn

SpecSample == InitSample /\ [][NextSample]_vars

----------------------------------------------------------------------------
\* iterate_pagerank

\* The convergence threshold of line 139.
Tolerance == <<1, 1000>>

\* A faulty variant of RankRead: the ranks updated in place, so that a rank
\* already computed in this iteration is read.
RankReadInPlace(old, new, q) == IF q \in DOMAIN new THEN new[q] ELSE old[q]

\* lines 129 and 132 read the rank of linking_page from old_dict.
RankRead(old, new, q) == old[q]

\* lines 128-129: linking_page q links to page p.
LinkTerm(c, old, new, p, q) ==
    IF p \in c[q]
    THEN RDivInt(RankRead(old, new, q), Cardinality(c[q]))
    ELSE Zero

\* A faulty variant of SinkTerm: a page without links passes its rank to nobody.
SinkTermDropped(c, old, new, q) == Zero

\* lines 131-132: linking_page q has no links at all.
SinkTerm(c, old, new, q) ==
    IF Cardinality(c[q]) = 0
    THEN RDivInt(RankRead(old, new, q), len(c))
    ELSE Zero

\* lines 125-132: temp accumulated over every linking_page.
RECURSIVE LinkingLoop(_, _, _, _, _, _)
LinkingLoop(c, old, new, p, q, temp) ==
    IF q > len(c) THEN temp
    ELSE LinkingLoop(c, old, new, p, q + 1,
            RAdd(RAdd(temp, LinkTerm(c, old, new, p, q)), SinkTerm(c, old, new, q)))

\* lines 124-136: the loop over every page, which fills new_dict.
RECURSIVE PageLoop(_, _, _, _, _)
PageLoop(c, d, old, new, p) ==
    IF p > len(c) THEN new
    ELSE PageLoop(c, d, old,
            DictSet(new, p,
                RAdd(RMul(LinkingLoop(c, old, new, p, 1, Zero), d),
                     RDivInt(RSub(One, d), len(c)))),
            p + 1)

\* line 138: max([abs(new_dict[x] - old_dict[x]) for x in old_dict]), for a
\* non-empty old_dict.
RECURSIVE MaxDiff(_, _, _)
MaxDiff(new, old, k) ==
    IF k = 1 THEN RAbs(RSub(new[1], old[1]))
    ELSE RMax(MaxDiff(new, old, k - 1), RAbs(RSub(new[k], old[k])))

difference(new, old) == MaxDiff(new, old, Cardinality(DOMAIN old))

\* A faulty variant of Converged: <= in place of <.
ConvergedInclusive(diff) == RLe(diff, Tolerance)

\* line 139: difference < 0.001
Converged(diff) == RLt(diff, Tolerance)

\* A faulty variant of NextOld: the new ranks are never taken over.
NextOldStale(old, new) == old

\* line 142: old_dict = new_dict.copy()
NextOld(old, new) == new

InitIter ==
    /\ corpus \in UNION {Graphs(k) : k \in 0..MaxPages}
    /\ damping_factor \in IterDampings
    /\ n = 0
    /\ page = None
    /\ pc = "call"
    /\ returned = <<>>
    /\ sample = <<>>
    /\ current_page = None
    /\ i = 0
    /\ old_dict = <<>>
    /\ new_dict = <<>>

\* lines 114-120
EnterIterate ==
    /\ pc = "call"
    /\ old_dict' = [p \in DOMAIN corpus |-> Rat(1, len(corpus))]
    /\ new_dict' = <<>>
    /\ pc' = "compute"
    /\ UNCHANGED <<corpus, damping_factor, n, page, returned, sample, current_page, i>>

\* lines 124-136
ComputeNew ==
    /\ pc = "compute"
    /\ new_dict' = PageLoop(corpus, damping_factor, old_dict, new_dict, 1)
    /\ pc' = "check"
    /\ UNCHANGED <<corpus, damping_factor, n, page, returned, sample,
                   current_page, i, old_dict>>

\* line 138 on an empty corpus: max([]) raises ValueError.
CheckEmpty ==
    /\ pc = "check"
    /\ DOMAIN old_dict = {}
    /\ pc' = "error"
    /\ UNCHANGED <<corpus, damping_factor, n, page, returned, sample,
                   current_page, i, old_dict, new_dict>>

\* lines 138-140, 144: converged, so the loop is left and old_dict returned.
CheckBreak ==
    /\ pc = "check"
    /\ DOMAIN old_dict # {}
    /\ Converged(difference(new_dict, old_dict))
    /\ returned' = old_dict
    /\ pc' = "done"
    /\ UNCHANGED <<corpus, damping_factor, n, page, sample, current_page, i,
                   old_dict, new_dict>>

\* lines 138-142: not converged, so the new ranks become the old ones.
CheckContinue ==
    /\ pc = "check"
    /\ DOMAIN old_dict # {}
    /\ ~Converged(difference(new_dict, old_dict))
    /\ old_dict' = NextOld(old_dict, new_dict)
    /\ pc' = "compute"
    /\ UNCHANGED <<corpus, damping_factor, n, page, returned, sample,
                   current_page, i, new_dict>>

NextIter ==
    \/ EnterIterate
    \/ ComputeNew
    \/ CheckEmpty
    \/ CheckBreak
    \/ CheckContinue

SpecIter == InitIter /\ [][NextIter]_vars

\* Control is inside iterate_pagerank.
Running == pc \in {"call", "compute", "check"}

\* Control moves on to another point of the function.
Advance == Running /\ pc' \in {"compute", "check", "done", "error"} /\ pc' # pc

\* The interpreter keeps executing: control never rests forever inside the
\* function. Every step of NextIter moves pc and one is enabled wherever
\* Running holds, so this is weak fairness of NextIter, stated on pc alone.
SpecIterFair == SpecIter /\ WF_pc(Advance)

----------------------------------------------------------------------------
\* Properties of transition_model (checked under SpecTM).

Uniform(c) == [p \in DOMAIN c |-> Rat(1, len(c))]

\* C1: for a page with an empty out-link set, transition_model returns the
\* mapping that assigns exactly 1/|graph| to every page of the graph.
C1_SinkUniform ==
    (pc = "done" /\ corpus[page] = {}) => returned = Uniform(corpus)

\* C2: the mapping transition_model returns has exactly one entry per page of
\* the graph, every entry is >= 0, and the entries sum to 1.
C2_DistributionValid ==
    pc = "done" =>
        /\ DOMAIN returned = DOMAIN corpus
        /\ \A p \in DOMAIN returned : RLe(Zero, returned[p])
        /\ RSum(returned) = One

\* C9: for a page with at least one out-link, transition_model assigns
\* (1 - damping)/|graph| + damping/|out-links(page)| to every out-link of the
\* page and (1 - damping)/|graph| to every other page of the graph.
C9_LinkedFormula ==
    (pc = "done" /\ corpus[page] # {}) =>
        /\ DOMAIN returned = DOMAIN corpus
        /\ \A p \in DOMAIN corpus :
              LET base == RMul(RSub(One, damping_factor), <<1, len(corpus)>>)
                  follow == RMul(damping_factor, <<1, Cardinality(corpus[page])>>)
              IN  returned[p] = IF p \in corpus[page] THEN RAdd(base, follow) ELSE base

\* A call on a page that links to some pages of the graph and not to others.
C9_Witness ==
    /\ pc = "done"
    /\ corpus[page] # {}
    /\ \E p, q \in DOMAIN corpus : p \in corpus[page] /\ q \notin corpus[page]
    /\ Cardinality(corpus[page]) # len(corpus)

----------------------------------------------------------------------------
\* Properties of sample_pagerank (checked under SpecSample).

\* c is a non-negative multiple of 1/k.
MultipleOf(c, k) == c[1] >= 0 /\ k % c[2] = 0

\* C6: on a non-empty graph with n >= 1, sample_pagerank fails nowhere, after
\* k loop steps the counters sum to k/n, and it returns after exactly n steps a
\* mapping with one entry per page, each a non-negative multiple of 1/n,
\* summing to 1.
C6_SampleCounts ==
    (len(corpus) >= 1 /\ n >= 1) =>
        /\ pc # "error"
        /\ pc = "sample_loop" =>
              /\ i <= n
              /\ DOMAIN sample = DOMAIN corpus
              /\ RSum(sample) = Rat(i, n)
              /\ \A p \in DOMAIN sample : MultipleOf(sample[p], n)
        /\ pc = "done" =>
              /\ i = n
              /\ DOMAIN returned = DOMAIN corpus
              /\ RSum(returned) = One
              /\ \A p \in DOMAIN returned : MultipleOf(returned[p], n)

\* A walk of several steps has returned, having visited two different pages
\* and one of them more than once.
C6_Witness ==
    /\ pc = "done"
    /\ n >= 3
    /\ \E p, q \in DOMAIN corpus :
          /\ p # q
          /\ RLt(Rat(1, n), returned[p])
          /\ RLt(Zero, returned[q])

\* C8: a call with an invalid input (n < 1, a damping factor outside (0,1), or
\* an empty graph) ends in an error and returns no rank mapping.
C8_InvalidInputRejected ==
    (n < 1 \/ ~ValidDamping(damping_factor) \/ len(corpus) = 0) => pc # "done"

----------------------------------------------------------------------------
\* Properties of iterate_pagerank (checked under SpecIter and SpecIterFair).

\* C3: on convergence the mapping returned is the newly computed rank mapping
\* of the last iteration.
C3_ReturnsNew ==
    pc = "done" => returned = new_dict

\* C4: on a non-empty graph the ranks an iteration starts from, the new ranks
\* it computes and the mapping finally returned each sum to 1.
C4_MassConserved ==
    len(corpus) >= 1 =>
        /\ pc = "compute" => RSum(old_dict) = One
        /\ pc = "check" => RSum(new_dict) = One
        /\ pc = "done" => RSum(returned) = One

Sinks(c) == {q \in DOMAIN c : c[q] = {}}

\* Several iterations have run on a graph with a sink.
C4_Witness ==
    /\ pc = "check"
    /\ Sinks(corpus) # {}
    /\ Sinks(corpus) # DOMAIN corpus
    /\ old_dict # Uniform(corpus)
    /\ new_dict # old_dict

\* |new_dict[p] - old_dict[p]|
PageDiff(p) == RAbs(RSub(new_dict[p], old_dict[p]))

\* C5 as stated: the loop is left exactly when every page's new rank differs
\* from that page's old rank by at most 0.001.
C5_StopsWithinTolerance ==
    [][(pc = "check" /\ len(corpus) >= 1) =>
          ((pc' = "done") <=> \A p \in DOMAIN corpus : RLe(PageDiff(p), Tolerance))]_vars

\* C5 as amended: the loop is left exactly when every page's new rank differs
\* from that page's old rank by less than 0.001; a difference of exactly 0.001
\* forces another iteration.
C5_StopsBelowTolerance ==
    [][(pc = "check" /\ len(corpus) >= 1) =>
          /\ (pc' = "done") <=> \A p \in DOMAIN corpus : RLt(PageDiff(p), Tolerance)
          /\ (pc' = "compute") <=> \E p \in DOMAIN corpus : RLe(Tolerance, PageDiff(p))]_vars

\* The largest per-page difference of a finished iteration is exactly 0.001.
C5_Witness ==
    /\ pc = "check"
    /\ len(corpus) >= 1
    /\ \E p \in DOMAIN corpus : PageDiff(p) = Tolerance
    /\ \A p \in DOMAIN corpus : RLe(PageDiff(p), Tolerance)

\* C7: on a non-empty graph iterate_pagerank eventually leaves its loop and
\* returns a rank mapping.
C7_Terminates ==
    (pc = "call" /\ len(corpus) >= 1) ~> (pc = "done")

\* A call has returned after more than one iteration.
C7_Witness ==
    /\ pc = "done"
    /\ len(corpus) >= 1
    /\ returned # Uniform(corpus)

RECURSIVE SumOver(_, _)
SumOver(S, f) ==
    IF S = {} THEN Zero
    ELSE LET x == CHOOSE y \in S : TRUE
         IN  RAdd(f[x], SumOver(S \ {x}, f))

\* The pages that link to p.
Linkers(c, p) == {q \in DOMAIN c : p \in c[q]}

====
